---- MODULE Spec2Model ----
(***************************************************************************)
(* Client session of the two-party betting game: the BettingGame component *)
(* (socket + room channel, inbound event handling, user actions) and the   *)
(* zod schemas of lib/models/rooms.ts.                                     *)
(*                                                                         *)
(* JavaScript values are tagged records so that values of different types  *)
(* can be compared: t is the type tag, s the string content, n the number. *)
(* The transport (Phoenix socket and channel) is the environment: it may   *)
(* complete a join, answer a push, deliver a channel event or report a     *)
(* socket event at any time once the corresponding callback is registered. *)
(***************************************************************************)
EXTENDS Integers, Sequences, FiniteSets, TLC

(***************************************************************************)
(* Bounds of the model.                                                    *)
(***************************************************************************)
\* the amount the server sends in challenge_accepted
MaxAmount == 2
\* largest number of consecutive failed reconnect attempts that is tracked
MaxTries == 5
\* largest number of pushes awaiting their reply
MaxPending == 1

(***************************************************************************)
(* JavaScript values.                                                      *)
(***************************************************************************)
Undefined == [t |-> "undefined", s |-> "", n |-> 0]
Null == [t |-> "null", s |-> "", n |-> 0]
NaN == [t |-> "nan", s |-> "", n |-> 0]
Str(x) == [t |-> "str", s |-> x, n |-> 0]
Num(k) == [t |-> "num", s |-> "", n |-> k]
DateOf(x) == [t |-> "date", s |-> x, n |-> 0]

\* JavaScript truthiness: undefined, null, NaN, "" and 0 are falsy
Truthy(v) ==
    CASE v.t = "str" -> v.s # ""
      [] v.t = "num" -> v.n # 0
      [] v.t = "date" -> TRUE
      [] OTHER -> FALSE

Users == {"u1", "u2"}
RoomIds == {"r1"}

(***************************************************************************)
(* Raw payloads as they arrive from the server.  A raw payload is a record *)
(* over every field name the schemas read; a field that is absent from the *)
(* message is Undefined.                                                   *)
(***************************************************************************)
EmptyPayload ==
    [room_id |-> Undefined, challenger_id |-> Undefined,
     challenged_id |-> Undefined, challenge_amount |-> Undefined,
     challenge_description |-> Undefined,
     challenger_bet_amount |-> Undefined,
     challenged_bet_amount |-> Undefined, createdAt |-> Undefined,
     betStatus |-> Undefined, amount |-> Undefined,
     declined_by |-> Undefined, status |-> Undefined,
     challenger_amount |-> Undefined, challenged_amount |-> Undefined,
     user_id |-> Undefined]

\* z.string()
ZString(v) == v.t = "str"
\* z.number(): NaN is rejected
ZNumber(v) == v.t = "num"
\* .nullish(): undefined and null pass
ZNullish(v) == v.t \in {"undefined", "null"}
\* z.enum(['completed', 'not_completed'])
ZBetStatus(v) == v.t = "str" /\ v.s \in {"completed", "not_completed"}

\* ChallengeSchema: four nullish fields
ChallengeSchema(p) ==
    /\ ZNullish(p.challenge_amount) \/ ZNumber(p.challenge_amount)
    /\ ZNullish(p.challenge_description) \/ ZString(p.challenge_description)
    /\ ZNullish(p.challenger_bet_amount) \/ ZNumber(p.challenger_bet_amount)
    /\ ZNullish(p.challenged_bet_amount) \/ ZNumber(p.challenged_bet_amount)

\* RoomInfoSchema before its transform: does the raw object pass?
RoomInfoSchema(p) ==
    /\ ChallengeSchema(p)
    /\ ZString(p.room_id)
    /\ ZNullish(p.challenger_id) \/ ZString(p.challenger_id)
    /\ ZNullish(p.challenged_id) \/ ZString(p.challenged_id)
    /\ ZNullish(p.createdAt) \/ ZString(p.createdAt)
    /\ ZNullish(p.betStatus) \/ ZBetStatus(p.betStatus)

\* the component holds no RoomInfo (useState<RoomInfo>() is undefined)
NoRoomInfo ==
    [present |-> FALSE, roomId |-> Undefined, challengerId |-> Undefined,
     challengedId |-> Undefined, challengeAmount |-> Undefined,
     challengeDescription |-> Undefined, challengerBetAmount |-> Undefined,
     challengedBetAmount |-> Undefined, createdAt |-> Undefined,
     betStatus |-> Undefined]

\* a transform that crosses the two participant ids
RoomInfoTransformCrossed(p) ==
    [present |-> TRUE,
     roomId |-> p.room_id,
     challengerId |-> p.challenged_id,
     challengedId |-> p.challenger_id,
     challengeAmount |-> p.challenge_amount,
     challengeDescription |-> p.challenge_description,
     challengerBetAmount |-> p.challenger_bet_amount,
     challengedBetAmount |-> p.challenged_bet_amount,
     createdAt |-> IF Truthy(p.createdAt) THEN DateOf(p.createdAt.s) ELSE Null,
     betStatus |-> p.betStatus]

\* RoomInfoSchema's .transform(): snake_case to camelCase, createdAt to a Date
RoomInfoTransform(p) ==
    [present |-> TRUE,
     roomId |-> p.room_id,
     challengerId |-> p.challenger_id,
     challengedId |-> p.challenged_id,
     challengeAmount |-> p.challenge_amount,
     challengeDescription |-> p.challenge_description,
     challengerBetAmount |-> p.challenger_bet_amount,
     challengedBetAmount |-> p.challenged_bet_amount,
     createdAt |-> IF Truthy(p.createdAt) THEN DateOf(p.createdAt.s) ELSE Null,
     betStatus |-> p.betStatus]

\* JoinRoomResponseSchema: { roomInfo: RoomInfoSchema, userId: z.string() }
JoinRoomResponseSchema(resp) ==
    /\ RoomInfoSchema(resp.roomInfo)
    /\ ZString(resp.userId)

\* the event names the discriminated union IncomingActionSchema lists
IncomingVariants ==
    {"challenge_received", "challenge_accepted", "challenge_declined",
     "bet_completed", "user_joined", "user_left"}

\* IncomingActionSchema.parse({event, payload}) succeeds
IncomingActionSchema(event, p) ==
    /\ event \in IncomingVariants
    /\ CASE event = "challenge_received" -> ZString(p.challenge_description)
         [] event = "challenge_accepted" -> ZNumber(p.amount)
         [] event = "challenge_declined" -> ZString(p.declined_by)
         [] event = "bet_completed" ->
                /\ ZBetStatus(p.status)
                /\ ZNumber(p.challenger_amount)
                /\ ZNumber(p.challenged_amount)
         [] event = "user_joined" -> RoomInfoSchema(p)
         [] event = "user_left" -> ZString(p.user_id)

\* the value IncomingActionSchema.parse returns for a payload that passes:
\* z.object keeps the declared keys only; user_joined carries the transformed
\* RoomInfo
IncomingParsed(event, p) ==
    CASE event = "challenge_received" ->
            [event |-> event, room |-> NoRoomInfo,
             payload |-> [EmptyPayload EXCEPT
                 !.challenge_description = p.challenge_description]]
      [] event = "challenge_accepted" ->
            [event |-> event, room |-> NoRoomInfo,
             payload |-> [EmptyPayload EXCEPT !.amount = p.amount]]
      [] event = "challenge_declined" ->
            [event |-> event, room |-> NoRoomInfo,
             payload |-> [EmptyPayload EXCEPT !.declined_by = p.declined_by]]
      [] event = "bet_completed" ->
            [event |-> event, room |-> NoRoomInfo,
             payload |-> [EmptyPayload EXCEPT
                 !.status = p.status,
                 !.challenger_amount = p.challenger_amount,
                 !.challenged_amount = p.challenged_amount]]
      [] event = "user_joined" ->
            [event |-> event, room |-> RoomInfoTransform(p),
             payload |-> EmptyPayload]
      [] event = "user_left" ->
            [event |-> event, room |-> NoRoomInfo,
             payload |-> [EmptyPayload EXCEPT !.user_id = p.user_id]]


(***************************************************************************)
(* The state of one BettingGame component and of its environment.          *)
(***************************************************************************)
VARIABLES
    isConnected,          \* useState(false)
    roomInfo,             \* useState<RoomInfo>(): a RoomInfo record or NoRoomInfo
    userId,               \* useState<string>(): Str(u) or Undefined
    challengeBetAmount,   \* draft of the accepting party's amount
    betAmount,            \* draft of the bet
    challengeDescription, \* draft of the challenge text
    gameState,            \* useState<GameState>('Idle')
    hasPlacedBet,         \* useState(false)
    isChallenger,         \* the value useMemo holds for the current render
    socketRef,            \* TRUE iff socketRef.current is set
    channelRef,           \* TRUE iff channelRef.current is set
    sessionStorage,       \* the item room_<roomId>_userId: Str(u) or Null
    locationRoomId,       \* the id parameter of window.location.search
    phase,                \* "constructed", "mounted" or "unmounted"
    socketParams,         \* the user_id the Socket was constructed with
    sock,                 \* transport: none, connecting, open, closed, disconnected
    tries,                \* reconnect attempts made since the socket was last open
    reconnectDelay,       \* delay of the scheduled reconnect attempt, in ms
    channel,              \* none, joining, joined, errored, left
    bindings,             \* event names bound with channel.on, in order
    pending,              \* the events with a push that awaits its reply
    toasts,               \* notices shown by the last step
    pushed,               \* messages pushed on the channel by the last step
    lastOp                \* the last step: [op, event, valid]

vars ==
    <<isConnected, roomInfo, userId, challengeBetAmount, betAmount,
      challengeDescription, gameState, hasPlacedBet, isChallenger, socketRef,
      channelRef, sessionStorage, locationRoomId, phase, socketParams, sock,
      tries, reconnectDelay, channel, bindings, pending, toasts, pushed,
      lastOp>>

\* the useState values the state machine and the drafts live in
draftVars == <<challengeBetAmount, betAmount, challengeDescription>>
refVars == <<socketRef, channelRef>>
transportVars == <<sock, tries, reconnectDelay>>

\* initial useState values of the drafts
InitialChallengeBetAmount == 100
InitialBetAmount == 1

GameStates ==
    {"Idle", "ChallengeSent", "ChallengeReceived", "ChallengeAccepted",
     "ChallengeDeclined", "BetPlaced", "BetCompleted"}

Op(name, event, valid) == [op |-> name, event |-> event, valid |-> valid]

\* a === b of JavaScript on the tagged values
StrictEq(a, b) == a.t # "nan" /\ a = b

\* roomInfo?.challengerId
OptChallengerId(r) == IF r.present THEN r.challengerId ELSE Undefined

\* the body of the isChallenger memo
isChallengerBody(u, r) == StrictEq(u, OptChallengerId(r))

\* a memo that forgets roomInfo among its dependencies
useMemoIsChallengerStale(held, prevU, prevR, u, r) ==
    IF u # prevU THEN isChallengerBody(u, r) ELSE held

\* useMemo(..., [userId, roomInfo]): recomputed when a dependency changed
useMemoIsChallenger(held, prevU, prevR, u, r) ==
    IF u # prevU \/ r # prevR THEN isChallengerBody(u, r) ELSE held

\* the render that follows a state change of a mounted component
Render ==
    isChallenger' =
        IF phase' = "unmounted"
        THEN isChallenger
        ELSE useMemoIsChallenger(isChallenger, userId, roomInfo,
                                userId', roomInfo')

(***************************************************************************)
(* The state machine.  G is the record of the useState values the inbound  *)
(* handler and the reset write.                                            *)
(***************************************************************************)
Game ==
    [gameState |-> gameState, roomInfo |-> roomInfo,
     challengeDescription |-> challengeDescription,
     challengeBetAmount |-> challengeBetAmount, betAmount |-> betAmount,
     hasPlacedBet |-> hasPlacedBet]

\* a reset that forgets the bet-placed flag
resetGameKeepsFlag(G) ==
    [G EXCEPT !.gameState = "Idle", !.challengeDescription = <<>>,
              !.challengeBetAmount = InitialChallengeBetAmount,
              !.betAmount = InitialBetAmount]

resetGame(G) ==
    [G EXCEPT !.gameState = "Idle", !.challengeDescription = <<>>,
              !.challengeBetAmount = InitialChallengeBetAmount,
              !.betAmount = InitialBetAmount, !.hasPlacedBet = FALSE]

\* an updater that builds a RoomInfo out of the patch when none is held
PatchRoomCreates(r, patch) == [patch EXCEPT !.present = TRUE]

\* setRoomInfo(prev => prev && {...prev, ...}) on the fields f1..f3
PatchRoom(r, patch) == IF r.present THEN patch ELSE r

\* a handler that leaves GameState alone on challenge_declined
handleIncomingMessageNoDecline(G, action) ==
    CASE action.event = "user_joined" -> [G EXCEPT !.roomInfo = action.room]
      [] action.event = "challenge_received" ->
            [G EXCEPT !.gameState = "ChallengeReceived"]
      [] action.event = "challenge_accepted" ->
            [G EXCEPT !.gameState = "ChallengeAccepted"]
      [] action.event = "challenge_declined" -> G
      [] action.event = "bet_completed" ->
            [G EXCEPT !.gameState = "BetCompleted"]
      [] action.event = "user_left" ->
            [G EXCEPT !.gameState = "Idle", !.roomInfo = NoRoomInfo]
      [] action.event = "game_reset" -> resetGame(G)

\* a handler that stores the bet amounts of bet_completed crosswise
handleIncomingMessageSwapped(G, action) ==
    CASE action.event = "user_joined" -> [G EXCEPT !.roomInfo = action.room]
      [] action.event = "challenge_received" ->
            [G EXCEPT !.gameState = "ChallengeReceived",
                      !.roomInfo = PatchRoom(G.roomInfo,
                          [G.roomInfo EXCEPT !.challengeDescription =
                              action.payload.challenge_description])]
      [] action.event = "challenge_accepted" ->
            [G EXCEPT !.gameState = "ChallengeAccepted",
                      !.roomInfo = PatchRoom(G.roomInfo,
                          [G.roomInfo EXCEPT !.challengeAmount =
                              action.payload.amount])]
      [] action.event = "challenge_declined" ->
            [G EXCEPT !.gameState = "ChallengeDeclined"]
      [] action.event = "bet_completed" ->
            [G EXCEPT !.gameState = "BetCompleted",
                      !.roomInfo = PatchRoom(G.roomInfo,
                          [G.roomInfo EXCEPT
                              !.challengedBetAmount =
                                  action.payload.challenger_amount,
                              !.challengerBetAmount =
                                  action.payload.challenged_amount,
                              !.betStatus = action.payload.status])]
      [] action.event = "user_left" ->
            [G EXCEPT !.gameState = "Idle", !.roomInfo = NoRoomInfo]
      [] action.event = "game_reset" -> resetGame(G)

\* a handler that keeps the RoomInfo on user_left
handleIncomingMessageKeepsRoom(G, action) ==
    CASE action.event = "user_joined" -> [G EXCEPT !.roomInfo = action.room]
      [] action.event = "challenge_received" ->
            [G EXCEPT !.gameState = "ChallengeReceived",
                      !.roomInfo = PatchRoom(G.roomInfo,
                          [G.roomInfo EXCEPT !.challengeDescription =
                              action.payload.challenge_description])]
      [] action.event = "challenge_accepted" ->
            [G EXCEPT !.gameState = "ChallengeAccepted",
                      !.roomInfo = PatchRoom(G.roomInfo,
                          [G.roomInfo EXCEPT !.challengeAmount =
                              action.payload.amount])]
      [] action.event = "challenge_declined" ->
            [G EXCEPT !.gameState = "ChallengeDeclined"]
      [] action.event = "bet_completed" ->
            [G EXCEPT !.gameState = "BetCompleted",
                      !.roomInfo = PatchRoom(G.roomInfo,
                          [G.roomInfo EXCEPT
                              !.challengedBetAmount =
                                  action.payload.challenged_amount,
                              !.challengerBetAmount =
                                  action.payload.challenger_amount,
                              !.betStatus = action.payload.status])]
      [] action.event = "user_left" ->
            [G EXCEPT !.gameState = "Idle"]
      [] action.event = "game_reset" -> resetGame(G)

\* a handler that merges the user_joined snapshot into the held RoomInfo:
\* a description the snapshot does not carry survives
handleIncomingMessageMerges(G, action) ==
    CASE action.event = "user_joined" ->
            [G EXCEPT !.roomInfo =
                IF G.roomInfo.present
                   /\ action.room.challengeDescription = Undefined
                THEN [action.room EXCEPT !.challengeDescription =
                          G.roomInfo.challengeDescription]
                ELSE action.room]
      [] action.event = "challenge_received" ->
            [G EXCEPT !.gameState = "ChallengeReceived",
                      !.roomInfo = PatchRoom(G.roomInfo,
                          [G.roomInfo EXCEPT !.challengeDescription =
                              action.payload.challenge_description])]
      [] action.event = "challenge_accepted" ->
            [G EXCEPT !.gameState = "ChallengeAccepted",
                      !.roomInfo = PatchRoom(G.roomInfo,
                          [G.roomInfo EXCEPT !.challengeAmount =
                              action.payload.amount])]
      [] action.event = "challenge_declined" ->
            [G EXCEPT !.gameState = "ChallengeDeclined"]
      [] action.event = "bet_completed" ->
            [G EXCEPT !.gameState = "BetCompleted",
                      !.roomInfo = PatchRoom(G.roomInfo,
                          [G.roomInfo EXCEPT
                              !.challengedBetAmount =
                                  action.payload.challenged_amount,
                              !.challengerBetAmount =
                                  action.payload.challenger_amount,
                              !.betStatus = action.payload.status])]
      [] action.event = "user_left" ->
            [G EXCEPT !.gameState = "Idle", !.roomInfo = NoRoomInfo]
      [] action.event = "game_reset" -> resetGame(G)

\* handleIncomingMessage: match(action).with(...).exhaustive()
handleIncomingMessage(G, action) ==
    CASE action.event = "user_joined" -> [G EXCEPT !.roomInfo = action.room]
      [] action.event = "challenge_received" ->
            [G EXCEPT !.gameState = "ChallengeReceived",
                      !.roomInfo = PatchRoom(G.roomInfo,
                          [G.roomInfo EXCEPT !.challengeDescription =
                              action.payload.challenge_description])]
      [] action.event = "challenge_accepted" ->
            [G EXCEPT !.gameState = "ChallengeAccepted",
                      !.roomInfo = PatchRoom(G.roomInfo,
                          [G.roomInfo EXCEPT !.challengeAmount =
                              action.payload.amount])]
      [] action.event = "challenge_declined" ->
            [G EXCEPT !.gameState = "ChallengeDeclined"]
      [] action.event = "bet_completed" ->
            [G EXCEPT !.gameState = "BetCompleted",
                      !.roomInfo = PatchRoom(G.roomInfo,
                          [G.roomInfo EXCEPT
                              !.challengedBetAmount =
                                  action.payload.challenged_amount,
                              !.challengerBetAmount =
                                  action.payload.challenger_amount,
                              !.betStatus = action.payload.status])]
      [] action.event = "user_left" ->
            [G EXCEPT !.gameState = "Idle", !.roomInfo = NoRoomInfo]
      [] action.event = "game_reset" -> resetGame(G)

\* writes a Game record back into the useState variables
SetGame(G) ==
    /\ gameState' = G.gameState
    /\ roomInfo' = G.roomInfo
    /\ challengeDescription' = G.challengeDescription
    /\ challengeBetAmount' = G.challengeBetAmount
    /\ betAmount' = G.betAmount
    /\ hasPlacedBet' = G.hasPlacedBet


(***************************************************************************)
(* Text typed into the inputs: sequences of one-character strings.         *)
(***************************************************************************)
DigitVal(c) ==
    CASE c = "0" -> 0 [] c = "1" -> 1 [] c = "2" -> 2 [] c = "3" -> 3
      [] c = "4" -> 4 [] c = "5" -> 5 [] c = "6" -> 6 [] c = "7" -> 7
      [] c = "8" -> 8 [] c = "9" -> 9
IsDigit(c) == c \in {"0", "1", "2", "3", "4", "5", "6", "7", "8", "9"}

RECURSIVE LeadingDigits(_, _, _)
\* value of the longest prefix of digits; any says whether there is one
LeadingDigits(text, acc, any) ==
    IF text = <<>> \/ ~IsDigit(Head(text))
    THEN [any |-> any, value |-> acc]
    ELSE LeadingDigits(Tail(text), 10 * acc + DigitVal(Head(text)), TRUE)

\* parseInt(text): optional sign, then the leading digits, NaN without digits
parseInt(text) ==
    LET neg == text # <<>> /\ Head(text) = "-"
        r == LeadingDigits(IF neg THEN Tail(text) ELSE text, 0, FALSE)
    IN  IF r.any THEN Num(IF neg THEN 0 - r.value ELSE r.value) ELSE NaN

\* parseInt(text) || fallback, as a number
ParseIntOr(text, fallback) ==
    IF Truthy(parseInt(text)) THEN parseInt(text).n ELSE fallback

RECURSIVE TrimStart(_)
TrimStart(text) ==
    IF text # <<>> /\ Head(text) = " " THEN TrimStart(Tail(text)) ELSE text

RECURSIVE TrimEnd(_)
TrimEnd(text) ==
    IF text # <<>> /\ text[Len(text)] = " "
    THEN TrimEnd(SubSeq(text, 1, Len(text) - 1))
    ELSE text

\* a trim that removes nothing
trimNothing(text) == text

\* String.prototype.trim
trim(text) == TrimEnd(TrimStart(text))

\* what the user types into the accept amount input
AmountTexts == {<<"2">>, <<"-", "1">>, <<"x">>}
\* what the user types into the bet input
BetTexts == {<<"2">>, <<"x">>}
\* what the user types into the challenge textarea
DescriptionTexts == {<<" ">>, <<" ", "c">>}

(***************************************************************************)
(* Outbound messages.                                                      *)
(***************************************************************************)
EmptyOut == [challenge_description |-> <<>>, amount |-> 0, fields |-> {}]
DescriptionOut(text) ==
    [challenge_description |-> text, amount |-> 0,
     fields |-> {"challenge_description"}]
AmountOut(k) == [challenge_description |-> <<>>, amount |-> k, fields |-> {"amount"}]

\* OutgoingActionSchema.parse({event, payload}) would succeed: the payload
\* carries the fields the event's variant declares
OutgoingActionSchema(event, payload) ==
    CASE event = "send_challenge" ->
            "challenge_description" \in payload.fields
      [] event \in {"accept_challenge", "place_bet"} ->
            "amount" \in payload.fields
      [] event \in {"decline_challenge", "forfeit_bet", "reset_game"} -> TRUE
      [] OTHER -> FALSE

\* `Failed to ${event.replace(/_/g, ' ')}`
FailedToast(event) ==
    CASE event = "send_challenge" -> "Failed to send challenge"
      [] event = "accept_challenge" -> "Failed to accept challenge"
      [] event = "decline_challenge" -> "Failed to decline challenge"
      [] event = "place_bet" -> "Failed to place bet"
      [] event = "forfeit_bet" -> "Failed to forfeit bet"
      [] event = "reset_game" -> "Failed to reset game"

\* the events sendEvent is called with
OutgoingEvents ==
    {"send_challenge", "accept_challenge", "decline_challenge", "place_bet",
     "reset_game"}

\* room for one more push awaiting its reply; pushes of one event are told
\* apart by nothing the component reads, so one per event is tracked
CanPush(event) == event \notin pending /\ Cardinality(pending) < MaxPending

\* sendEvent: pushes when channelRef.current is set, else does nothing
sendEvent(event, payload) ==
    IF channelRef
    THEN /\ pushed' = <<[event |-> event, payload |-> payload]>>
         /\ pending' = pending \cup {event}
    ELSE /\ pushed' = <<>>
         /\ pending' = pending

NoPush == pushed' = <<>> /\ pending' = pending

(***************************************************************************)
(* What the server sends.                                                  *)
(***************************************************************************)
\* snapshots of the room, valid and invalid
RawRooms ==
    {[EmptyPayload EXCEPT !.room_id = Str("r1"), !.challenger_id = Str("u1"),
                          !.challenged_id = Null],
     [EmptyPayload EXCEPT !.room_id = Str("r1"), !.challenger_id = Str("u2"),
                          !.challenged_id = Str("u1"),
                          !.challenge_description = Str("coin flip"),
                          !.challenge_amount = Num(0),
                          !.createdAt = Str("2025-01-01")],
     [EmptyPayload EXCEPT !.room_id = Str("r1"), !.challenger_id = Num(1)]}

JoinResponses ==
    {[roomInfo |-> r, userId |-> u] :
        r \in RawRooms, u \in {Str("u1"), Str("u2"), Undefined}}

InboundEvents ==
    {"user_joined", "challenge_received", "challenge_accepted",
     "challenge_declined", "bet_completed", "user_left", "game_reset"}

\* the payloads the server may attach to an event, well-formed or not
InboundPayloads(event) ==
    CASE event = "user_joined" -> RawRooms
      [] event = "challenge_received" ->
            {[EmptyPayload EXCEPT !.challenge_description = d] :
                d \in {Str("coin flip"), Num(1)}}
      [] event = "challenge_accepted" ->
            {[EmptyPayload EXCEPT !.amount = a] :
                a \in {Num(MaxAmount), Undefined}}
      [] event = "challenge_declined" ->
            {[EmptyPayload EXCEPT !.declined_by = d] :
                d \in {Str("u2"), Undefined}}
      [] event = "bet_completed" ->
            {[EmptyPayload EXCEPT !.status = Str("completed"),
                 !.challenger_amount = Num(2), !.challenged_amount = Num(1)],
             [EmptyPayload EXCEPT !.status = Str("pending"),
                 !.challenger_amount = Num(2), !.challenged_amount = Num(1)]}
      [] event = "user_left" ->
            {[EmptyPayload EXCEPT !.user_id = u] : u \in {Str("u2"), Num(2)}}
      [] event = "game_reset" -> {EmptyPayload}

\* the payloads delivered in the session without user input: the same, and a
\* user_joined snapshot that leaves the challenged_id key out
ConnectionPayloads(event) ==
    IF event = "user_joined"
    THEN InboundPayloads(event) \cup
            {[EmptyPayload EXCEPT !.room_id = Str("r1"),
                                  !.challenger_id = Str("u1")]}
    ELSE InboundPayloads(event)


(***************************************************************************)
(* Construction and the connection effect.                                 *)
(***************************************************************************)
\* the state after the first render, with `stored` the item the tab's
\* sessionStorage holds for the room
InitWith(stored) ==
    /\ isConnected = FALSE
    /\ roomInfo = NoRoomInfo
    /\ userId = Undefined
    /\ challengeBetAmount = InitialChallengeBetAmount
    /\ betAmount = InitialBetAmount
    /\ challengeDescription = <<>>
    /\ gameState = "Idle"
    /\ hasPlacedBet = FALSE
    /\ isChallenger = isChallengerBody(Undefined, NoRoomInfo)
    /\ socketRef = FALSE
    /\ channelRef = FALSE
    /\ sessionStorage = stored
    /\ locationRoomId \in RoomIds \cup {""}
    /\ phase = "constructed"
    /\ socketParams = Undefined
    /\ sock = "none"
    /\ tries = 0
    /\ reconnectDelay = 0
    /\ channel = "none"
    /\ bindings = <<>>
    /\ pending = {}
    /\ toasts = <<>>
    /\ pushed = <<>>
    /\ lastOp = Op("construct", "", TRUE)

\* a tab that has not joined the room before
Init == InitWith(Null)

\* a tab that may have joined the room before
InitConnection == \E stored \in {Null, Str("u1")} : InitWith(stored)

\* the names the effect binds with channel.on, in order
eventHandlers ==
    <<"user_joined", "challenge_received", "challenge_accepted",
      "challenge_declined", "bet_completed", "user_left", "game_reset">>

\* a backoff table indexed by tries instead of tries - 1
reconnectAfterMsOffByOne(n) ==
    LET table == <<1000, 2000, 5000, 10000>>
    IN  IF n + 1 \in 1..Len(table) THEN table[n + 1] ELSE 10000

\* reconnectAfterMs: tries => [1000, 2000, 5000, 10000][tries - 1] || 10000
reconnectAfterMs(n) ==
    LET table == <<1000, 2000, 5000, 10000>>
    IN  IF n \in 1..Len(table) THEN table[n] ELSE 10000

\* the effect of useEffect(..., []) on mount
useEffect ==
    /\ phase = "constructed"
    /\ phase' = "mounted"
    /\ lastOp' = Op("useEffect", "", locationRoomId # "")
    /\ IF locationRoomId = ""
       THEN /\ toasts' = <<"toasts.connecting", "toasts.roomIdMissing">>
            /\ UNCHANGED <<refVars, socketParams, transportVars, channel,
                           bindings>>
       ELSE /\ toasts' = <<"toasts.connecting">>
            /\ socketParams' =
                   IF Truthy(sessionStorage) THEN sessionStorage ELSE Undefined
            /\ sock' = "connecting"
            /\ socketRef' = TRUE
            /\ channel' = "joining"
            /\ channelRef' = TRUE
            /\ bindings' = eventHandlers
            /\ UNCHANGED <<tries, reconnectDelay>>
    /\ NoPush
    /\ UNCHANGED <<isConnected, roomInfo, userId, draftVars, gameState,
                   hasPlacedBet, isChallenger, sessionStorage, locationRoomId>>

\* a cleanup that forgets socketRef.current.disconnect()
CleanupKeepsSocket ==
    /\ phase = "mounted"
    /\ phase' = "unmounted"
    /\ lastOp' = Op("cleanup", "", locationRoomId # "")
    /\ IF locationRoomId = ""
       THEN UNCHANGED <<refVars, isConnected, sock, channel>>
       ELSE /\ channelRef' = FALSE
            /\ channel' = IF ~channelRef THEN channel
                          ELSE IF channel = "joining" THEN "leftJoining"
                          ELSE "left"
            /\ socketRef' = FALSE
            /\ sock' = sock
            /\ isConnected' = FALSE
    /\ toasts' = <<>>
    /\ NoPush
    /\ UNCHANGED <<roomInfo, userId, draftVars, gameState, hasPlacedBet,
                   isChallenger, sessionStorage, locationRoomId, socketParams,
                   tries, reconnectDelay, bindings>>

\* the cleanup the effect returned, run on unmount; the effect returned none
\* when the room id was missing
Cleanup ==
    /\ phase = "mounted"
    /\ phase' = "unmounted"
    /\ lastOp' = Op("cleanup", "", locationRoomId # "")
    /\ IF locationRoomId = ""
       THEN UNCHANGED <<refVars, isConnected, sock, channel>>
       ELSE /\ channelRef' = FALSE
            /\ channel' = IF ~channelRef THEN channel
                          ELSE IF channel = "joining" THEN "leftJoining"
                          ELSE "left"
            /\ socketRef' = FALSE
            /\ sock' = IF socketRef THEN "disconnected" ELSE sock
            /\ isConnected' = FALSE
    /\ toasts' = <<>>
    /\ NoPush
    /\ UNCHANGED <<roomInfo, userId, draftVars, gameState, hasPlacedBet,
                   isChallenger, sessionStorage, locationRoomId, socketParams,
                   tries, reconnectDelay, bindings>>

(***************************************************************************)
(* Completions of the join.                                                *)
(***************************************************************************)
\* a join reply can arrive while the join is outstanding, also when the
\* channel was left meanwhile
JoinOutstanding == channel \in {"joining", "leftJoining"}
\* an ok or error reply comes over the open socket, or was under way when the
\* channel was left
JoinReplyArrives ==
    \/ channel = "joining" /\ sock = "open"
    \/ channel = "leftJoining"
AfterJoinReply(st) == IF channel = "leftJoining" THEN "left" ELSE st

\* an ok hook that forgets sessionStorage.setItem
JoinOkNoStore(resp) ==
    /\ JoinReplyArrives
    /\ channel' = AfterJoinReply("joined")
    /\ lastOp' = Op("joinOk", "", JoinRoomResponseSchema(resp))
    /\ IF JoinRoomResponseSchema(resp)
       THEN /\ roomInfo' = RoomInfoTransform(resp.roomInfo)
            /\ userId' = resp.userId
            /\ isConnected' = TRUE
       ELSE UNCHANGED <<roomInfo, userId, isConnected>>
    /\ UNCHANGED sessionStorage
    /\ toasts' = <<>>
    /\ NoPush
    /\ UNCHANGED <<draftVars, gameState, hasPlacedBet, refVars,
                   locationRoomId, phase, socketParams, transportVars,
                   bindings>>
    /\ Render

\* .receive('ok', resp => ...)
JoinOk(resp) ==
    /\ JoinReplyArrives
    /\ channel' = AfterJoinReply("joined")
    /\ lastOp' = Op("joinOk", "", JoinRoomResponseSchema(resp))
    /\ IF JoinRoomResponseSchema(resp)
       THEN /\ roomInfo' = RoomInfoTransform(resp.roomInfo)
            /\ userId' = resp.userId
            /\ isConnected' = TRUE
            /\ sessionStorage' = resp.userId
       ELSE UNCHANGED <<roomInfo, userId, isConnected, sessionStorage>>
    /\ toasts' = <<>>
    /\ NoPush
    /\ UNCHANGED <<draftVars, gameState, hasPlacedBet, refVars,
                   locationRoomId, phase, socketParams, transportVars,
                   bindings>>
    /\ Render

\* an error hook that joins the channel again by itself
JoinErrorRetries ==
    /\ JoinReplyArrives
    /\ channel' = AfterJoinReply("joining")
    /\ lastOp' = Op("joinError", "", TRUE)
    /\ toasts' = <<"toasts.failedToJoin">>
    /\ NoPush
    /\ UNCHANGED <<isConnected, roomInfo, userId, draftVars, gameState,
                   hasPlacedBet, isChallenger, refVars, sessionStorage,
                   locationRoomId, phase, socketParams, transportVars,
                   bindings>>

\* .receive('error', resp => ...)
JoinError ==
    /\ JoinReplyArrives
    /\ channel' = AfterJoinReply("errored")
    /\ lastOp' = Op("joinError", "", TRUE)
    /\ toasts' = <<"toasts.failedToJoin">>
    /\ NoPush
    /\ UNCHANGED <<isConnected, roomInfo, userId, draftVars, gameState,
                   hasPlacedBet, isChallenger, refVars, sessionStorage,
                   locationRoomId, phase, socketParams, transportVars,
                   bindings>>

\* .receive('timeout', () => ...)
JoinTimeout ==
    /\ JoinOutstanding
    /\ channel' = AfterJoinReply("errored")
    /\ lastOp' = Op("joinTimeout", "", TRUE)
    /\ toasts' = <<"toasts.connectionTimeout">>
    /\ NoPush
    /\ UNCHANGED <<isConnected, roomInfo, userId, draftVars, gameState,
                   hasPlacedBet, isChallenger, refVars, sessionStorage,
                   locationRoomId, phase, socketParams, transportVars,
                   bindings>>

\* the channel joins again by itself once the socket is open
Rejoin ==
    /\ channel = "errored"
    /\ sock = "open"
    /\ channel' = "joining"
    /\ lastOp' = Op("rejoin", "", TRUE)
    /\ toasts' = <<>>
    /\ NoPush
    /\ UNCHANGED <<isConnected, roomInfo, userId, draftVars, gameState,
                   hasPlacedBet, isChallenger, refVars, sessionStorage,
                   locationRoomId, phase, socketParams, transportVars,
                   bindings>>

(***************************************************************************)
(* Inbound channel events.                                                 *)
(***************************************************************************)
Bound(event) == \E i \in 1..Len(bindings) : bindings[i] = event

\* a callback that hands the raw message to the handler although it did not
\* parse
OnChannelEventUnvalidated(event, payload) ==
    /\ Bound(event)
    /\ lastOp' = IF IncomingActionSchema(event, payload)
                  THEN Op("inbound", event, TRUE)
                  ELSE Op("dropped", "", FALSE)
    /\ SetGame(handleIncomingMessage(Game,
           [event |-> event, room |-> RoomInfoTransform(payload),
            payload |-> payload]))
    /\ toasts' = <<>>
    /\ NoPush
    /\ UNCHANGED <<isConnected, userId, refVars, sessionStorage,
                   locationRoomId, phase, socketParams, transportVars,
                   channel, bindings>>
    /\ Render

\* a callback whose outcome depends on the role of the session: the
\* challenger's copy goes back to Idle on challenge_declined
OnChannelEventByRole(event, payload) ==
    /\ Bound(event)
    /\ lastOp' = IF IncomingActionSchema(event, payload)
                  THEN Op("inbound", event, TRUE)
                  ELSE Op("dropped", "", FALSE)
    /\ IF IncomingActionSchema(event, payload)
       THEN IF event = "challenge_declined" /\ isChallenger
            THEN SetGame([Game EXCEPT !.gameState = "Idle"])
            ELSE SetGame(handleIncomingMessage(Game,
                             IncomingParsed(event, payload)))
       ELSE UNCHANGED <<gameState, roomInfo, draftVars, hasPlacedBet>>
    /\ toasts' = <<>>
    /\ NoPush
    /\ UNCHANGED <<isConnected, userId, refVars, sessionStorage,
                   locationRoomId, phase, socketParams, transportVars,
                   channel, bindings>>
    /\ Render

\* a callback that holds back a challenge_accepted that arrives out of the
\* table's order
OnChannelEventInOrder(event, payload) ==
    /\ Bound(event)
    /\ lastOp' = IF IncomingActionSchema(event, payload)
                  THEN Op("inbound", event, TRUE)
                  ELSE Op("dropped", "", FALSE)
    /\ IF /\ IncomingActionSchema(event, payload)
          /\ ~(event = "challenge_accepted" /\ gameState # "ChallengeReceived")
       THEN SetGame(handleIncomingMessage(Game, IncomingParsed(event, payload)))
       ELSE UNCHANGED <<gameState, roomInfo, draftVars, hasPlacedBet>>
    /\ toasts' = <<>>
    /\ NoPush
    /\ UNCHANGED <<isConnected, userId, refVars, sessionStorage,
                   locationRoomId, phase, socketParams, transportVars,
                   channel, bindings>>
    /\ Render

\* the callback given to channel.on(eventType, ...): parse, then handle; a
\* payload that does not parse makes parse throw before any state is set
OnChannelEvent(event, payload) ==
    /\ Bound(event)
    /\ lastOp' = IF IncomingActionSchema(event, payload)
                  THEN Op("inbound", event, TRUE)
                  ELSE Op("dropped", "", FALSE)
    /\ IF IncomingActionSchema(event, payload)
       THEN SetGame(handleIncomingMessage(Game, IncomingParsed(event, payload)))
       ELSE UNCHANGED <<gameState, roomInfo, draftVars, hasPlacedBet>>
    /\ toasts' = <<>>
    /\ NoPush
    /\ UNCHANGED <<isConnected, userId, refVars, sessionStorage,
                   locationRoomId, phase, socketParams, transportVars,
                   channel, bindings>>
    /\ Render

\* the server's event reaches the channel over the open socket
Inbound(event, payload) ==
    /\ sock = "open"
    /\ channel \in {"joining", "joined"}
    /\ OnChannelEvent(event, payload)

\* an event that was under way when the channel was left
StaleInbound(event, payload) ==
    /\ channel \in {"left", "leftJoining"}
    /\ OnChannelEvent(event, payload)


(***************************************************************************)
(* Replies to pushes.  sendEvent registers an 'ok' and an 'error' hook and *)
(* none for 'timeout'.                                                     *)
(***************************************************************************)
componentVars ==
    <<isConnected, roomInfo, userId, draftVars, gameState, hasPlacedBet,
      isChallenger, refVars, sessionStorage, locationRoomId, phase,
      socketParams>>

\* .receive('ok', resp => console.log(...))
PushOk(event) ==
    /\ event \in pending
    /\ pending' = pending \ {event}
    /\ pushed' = <<>>
    /\ toasts' = <<>>
    /\ lastOp' = Op("pushOk", "", TRUE)
    /\ UNCHANGED <<componentVars, transportVars, channel, bindings>>

\* .receive('error', resp => showToast(`Failed to ...`))
PushError(event) ==
    /\ event \in pending
    /\ pending' = pending \ {event}
    /\ pushed' = <<>>
    /\ toasts' = <<FailedToast(event)>>
    /\ lastOp' = Op("pushError", event, TRUE)
    /\ UNCHANGED <<componentVars, transportVars, channel, bindings>>

\* the push times out: no hook is registered for it
PushTimeout(event) ==
    /\ event \in pending
    /\ pending' = pending \ {event}
    /\ pushed' = <<>>
    /\ toasts' = <<>>
    /\ lastOp' = Op("pushTimeout", "", TRUE)
    /\ UNCHANGED <<componentVars, transportVars, channel, bindings>>

(***************************************************************************)
(* The socket.                                                             *)
(***************************************************************************)
\* socket.onOpen(() => console.log(...)); an open socket has used no attempt
SocketOpen ==
    /\ sock = "connecting"
    /\ sock' = "open"
    /\ tries' = 0
    /\ reconnectDelay' = 0
    /\ toasts' = <<>>
    /\ NoPush
    /\ lastOp' = Op("socketOpen", "", TRUE)
    /\ UNCHANGED <<componentVars, channel, bindings>>

\* an error hook that also forgets who the session is
SocketErrorClearsUser ==
    /\ sock \in {"connecting", "open"}
    /\ toasts' = <<"toasts.connectionError">>
    /\ NoPush
    /\ lastOp' = Op("socketError", "", TRUE)
    /\ userId' = Undefined
    /\ UNCHANGED <<isConnected, roomInfo, draftVars, gameState, hasPlacedBet,
                   refVars, sessionStorage, locationRoomId, phase,
                   socketParams, transportVars, channel, bindings>>
    /\ Render

\* socket.onError(error => showToast(t('toasts.connectionError')))
SocketError ==
    /\ sock \in {"connecting", "open"}
    /\ toasts' = <<"toasts.connectionError">>
    /\ NoPush
    /\ lastOp' = Op("socketError", "", TRUE)
    /\ UNCHANGED <<componentVars, transportVars, channel, bindings>>

\* a close hook that also takes the connected flag down
SocketCloseDisconnects ==
    /\ sock \in {"connecting", "open"}
    /\ sock' = "closed"
    /\ reconnectDelay' = reconnectAfterMs(tries + 1)
    /\ channel' = IF channel \in {"joining", "joined"} THEN "errored"
                  ELSE channel
    /\ toasts' = <<>>
    /\ NoPush
    /\ lastOp' = Op("socketClose", "", TRUE)
    /\ isConnected' = FALSE
    /\ UNCHANGED <<roomInfo, userId, draftVars, gameState, hasPlacedBet,
                   isChallenger, refVars, sessionStorage, locationRoomId,
                   phase, socketParams, tries, bindings>>

\* socket.onClose(event => console.log(...)); the transport dropped, the
\* next attempt is scheduled after reconnectAfterMs(tries + 1) and the
\* channel is errored until it joins again
SocketClose ==
    /\ sock \in {"connecting", "open"}
    /\ sock' = "closed"
    /\ reconnectDelay' = reconnectAfterMs(tries + 1)
    /\ channel' = IF channel \in {"joining", "joined"} THEN "errored"
                  ELSE channel
    /\ toasts' = <<>>
    /\ NoPush
    /\ lastOp' = Op("socketClose", "", TRUE)
    /\ UNCHANGED <<componentVars, tries, bindings>>

\* the reconnect timer fires: one more attempt.  Attempts beyond MaxTries
\* are counted as MaxTries.
Reconnect ==
    /\ sock = "closed"
    /\ sock' = "connecting"
    /\ tries' = IF tries < MaxTries THEN tries + 1 ELSE tries
    /\ reconnectDelay' = 0
    /\ toasts' = <<>>
    /\ NoPush
    /\ lastOp' = Op("reconnect", "", TRUE)
    /\ UNCHANGED <<componentVars, channel, bindings>>


(***************************************************************************)
(* The views: which inputs and buttons the render offers.                  *)
(***************************************************************************)
\* a send-challenge view that is also rendered after a decline
SendChallengeViewAfterDecline ==
    /\ phase = "mounted"
    /\ isChallenger
    /\ gameState \in {"Idle", "ChallengeDeclined"}

\* {isChallenger && gameState === 'Idle' && ...}
SendChallengeView == phase = "mounted" /\ isChallenger /\ gameState = "Idle"

\* a send button that is disabled by the missing participant alone
SendChallengeDisabledIgnoresConnection ==
    StrictEq(roomInfo.challengedId, Null)

\* disabled={roomInfo?.challengedId === null || !isConnected}
SendChallengeDisabled ==
    StrictEq(roomInfo.challengedId, Null) \/ ~isConnected
\* {!isChallenger && roomInfo?.challengeDescription &&
\*  gameState === 'ChallengeReceived' && ...}
ChallengeReceivedView ==
    /\ phase = "mounted"
    /\ ~isChallenger
    /\ Truthy(roomInfo.challengeDescription)
    /\ gameState = "ChallengeReceived"
\* {gameState === 'ChallengeAccepted' && roomInfo?.challengeAmount && ...}
ChallengeAcceptedView ==
    /\ phase = "mounted"
    /\ gameState = "ChallengeAccepted"
    /\ Truthy(roomInfo.challengeAmount)
\* {gameState === 'BetCompleted' && roomInfo && roomInfo.betStatus && ...}
BetCompletedView ==
    /\ phase = "mounted"
    /\ gameState = "BetCompleted"
    /\ roomInfo.present
    /\ Truthy(roomInfo.betStatus)

(***************************************************************************)
(* User actions.                                                           *)
(***************************************************************************)
sessionVars ==
    <<isConnected, roomInfo, userId, isChallenger, refVars, sessionStorage,
      locationRoomId, phase, socketParams, transportVars, channel, bindings>>

\* onChange of the challenge textarea
SetChallengeDescription(text) ==
    /\ SendChallengeView
    /\ challengeDescription' = text
    /\ toasts' = <<>>
    /\ NoPush
    /\ lastOp' = Op("setChallengeDescription", "", TRUE)
    /\ UNCHANGED <<sessionVars, gameState, hasPlacedBet, challengeBetAmount,
                   betAmount>>

\* a send handler that moves GameState to ChallengeSent once it has pushed
handleSendChallengeOptimistic ==
    /\ SendChallengeView
    /\ ~SendChallengeDisabled
    /\ IF challengeDescription = <<>> \/ trim(challengeDescription) = <<>>
       THEN /\ toasts' = <<"toasts.enterChallengeDescription">>
            /\ NoPush
            /\ lastOp' = Op("handleSendChallenge", "send_challenge", FALSE)
            /\ UNCHANGED <<challengeDescription, gameState>>
       ELSE /\ CanPush("send_challenge")
            /\ toasts' = <<>>
            /\ sendEvent("send_challenge", DescriptionOut(challengeDescription))
            /\ lastOp' = Op("handleSendChallenge", "send_challenge", TRUE)
            /\ challengeDescription' = <<>>
            /\ gameState' = "ChallengeSent"
    /\ UNCHANGED <<sessionVars, hasPlacedBet, challengeBetAmount, betAmount>>

handleSendChallenge ==
    /\ SendChallengeView
    /\ ~SendChallengeDisabled
    /\ IF challengeDescription = <<>> \/ trim(challengeDescription) = <<>>
       THEN /\ toasts' = <<"toasts.enterChallengeDescription">>
            /\ NoPush
            /\ lastOp' = Op("handleSendChallenge", "send_challenge", FALSE)
            /\ UNCHANGED challengeDescription
       ELSE /\ CanPush("send_challenge")
            /\ toasts' = <<>>
            /\ sendEvent("send_challenge", DescriptionOut(challengeDescription))
            /\ lastOp' = Op("handleSendChallenge", "send_challenge", TRUE)
            /\ challengeDescription' = <<>>
    /\ UNCHANGED <<sessionVars, gameState, hasPlacedBet, challengeBetAmount,
                   betAmount>>

\* onChange of the accept amount: parseInt(value) || 0
SetChallengeBetAmount(text) ==
    /\ ChallengeReceivedView
    /\ challengeBetAmount' = ParseIntOr(text, 0)
    /\ toasts' = <<>>
    /\ NoPush
    /\ lastOp' = Op("setChallengeBetAmount", "", TRUE)
    /\ UNCHANGED <<sessionVars, gameState, hasPlacedBet, challengeDescription,
                   betAmount>>

\* an accept handler whose guard tests for zero only
handleAcceptChallengeZeroOnly ==
    /\ ChallengeReceivedView
    /\ isConnected
    /\ IF challengeBetAmount = 0
       THEN /\ toasts' = <<"toasts.enterValidBetAmount">>
            /\ NoPush
            /\ lastOp' = Op("handleAcceptChallenge", "accept_challenge", FALSE)
       ELSE /\ CanPush("accept_challenge")
            /\ toasts' = <<>>
            /\ sendEvent("accept_challenge", AmountOut(challengeBetAmount))
            /\ lastOp' = Op("handleAcceptChallenge", "accept_challenge", TRUE)
    /\ UNCHANGED <<sessionVars, gameState, hasPlacedBet, draftVars>>

\* if (!challengeBetAmount || challengeBetAmount <= 0) ... else sendEvent
handleAcceptChallenge ==
    /\ ChallengeReceivedView
    /\ isConnected
    /\ IF challengeBetAmount = 0 \/ challengeBetAmount <= 0
       THEN /\ toasts' = <<"toasts.enterValidBetAmount">>
            /\ NoPush
            /\ lastOp' = Op("handleAcceptChallenge", "accept_challenge", FALSE)
       ELSE /\ CanPush("accept_challenge")
            /\ toasts' = <<>>
            /\ sendEvent("accept_challenge", AmountOut(challengeBetAmount))
            /\ lastOp' = Op("handleAcceptChallenge", "accept_challenge", TRUE)
    /\ UNCHANGED <<sessionVars, gameState, hasPlacedBet, draftVars>>

handleDenyChallenge ==
    /\ ChallengeReceivedView
    /\ isConnected
    /\ CanPush("decline_challenge")
    /\ toasts' = <<>>
    /\ sendEvent("decline_challenge", EmptyOut)
    /\ lastOp' = Op("handleDenyChallenge", "decline_challenge", TRUE)
    /\ UNCHANGED <<sessionVars, gameState, hasPlacedBet, draftVars>>

\* onChange of the bet amount: parseInt(value) || 1
SetBetAmount(text) ==
    /\ ChallengeAcceptedView
    /\ ~hasPlacedBet
    /\ betAmount' = ParseIntOr(text, 1)
    /\ toasts' = <<>>
    /\ NoPush
    /\ lastOp' = Op("setBetAmount", "", TRUE)
    /\ UNCHANGED <<sessionVars, gameState, hasPlacedBet, challengeDescription,
                   challengeBetAmount>>

\* the two guards of handlePlaceBet, with >= weakened to >
PlaceBetRejectedOffByOne(amount, r) ==
    \/ amount = 0 \/ amount <= 0
    \/ Truthy(r.challengeAmount) /\ amount > r.challengeAmount.n

\* the two guards of handlePlaceBet: the bet is rejected locally
PlaceBetRejected(amount, r) ==
    \/ amount = 0 \/ amount <= 0
    \/ Truthy(r.challengeAmount) /\ amount >= r.challengeAmount.n

\* a bet handler that moves GameState on its own, ahead of the server
handlePlaceBetOptimistic ==
    /\ ChallengeAcceptedView
    /\ isConnected /\ ~hasPlacedBet
    /\ IF PlaceBetRejected(betAmount, roomInfo)
       THEN /\ toasts' = IF betAmount = 0 \/ betAmount <= 0
                         THEN <<"toasts.enterValidBetAmount">>
                         ELSE <<"toasts.betAmountTooHigh">>
            /\ NoPush
            /\ lastOp' = Op("handlePlaceBet", "place_bet", FALSE)
            /\ UNCHANGED <<hasPlacedBet, gameState>>
       ELSE /\ CanPush("place_bet")
            /\ toasts' = <<>>
            /\ sendEvent("place_bet", AmountOut(betAmount))
            /\ lastOp' = Op("handlePlaceBet", "place_bet", TRUE)
            /\ hasPlacedBet' = TRUE
            /\ gameState' = "BetPlaced"
    /\ UNCHANGED <<sessionVars, draftVars>>

handlePlaceBet ==
    /\ ChallengeAcceptedView
    /\ isConnected /\ ~hasPlacedBet
    /\ IF PlaceBetRejected(betAmount, roomInfo)
       THEN /\ toasts' = IF betAmount = 0 \/ betAmount <= 0
                         THEN <<"toasts.enterValidBetAmount">>
                         ELSE <<"toasts.betAmountTooHigh">>
            /\ NoPush
            /\ lastOp' = Op("handlePlaceBet", "place_bet", FALSE)
            /\ UNCHANGED hasPlacedBet
       ELSE /\ CanPush("place_bet")
            /\ toasts' = <<>>
            /\ sendEvent("place_bet", AmountOut(betAmount))
            /\ lastOp' = Op("handlePlaceBet", "place_bet", TRUE)
            /\ hasPlacedBet' = TRUE
    /\ UNCHANGED <<sessionVars, gameState, draftVars>>

\* the reset button of the challenger: resetGame(), then the push
handleResetGame ==
    /\ BetCompletedView
    /\ isChallenger
    /\ isConnected
    /\ CanPush("reset_game")
    /\ SetGame(resetGame(Game))
    /\ toasts' = <<>>
    /\ sendEvent("reset_game", EmptyOut)
    /\ lastOp' = Op("handleResetGame", "reset_game", TRUE)
    /\ UNCHANGED sessionVars

(***************************************************************************)
(* The session.                                                            *)
(***************************************************************************)
Next ==
    \/ useEffect
    \/ Cleanup
    \/ \E resp \in JoinResponses : JoinOk(resp)
    \/ JoinError
    \/ JoinTimeout
    \/ Rejoin
    \/ \E event \in InboundEvents :
          \E payload \in InboundPayloads(event) : Inbound(event, payload)
    \/ \E event \in OutgoingEvents : PushOk(event)
    \/ \E event \in OutgoingEvents : PushError(event)
    \/ \E event \in OutgoingEvents : PushTimeout(event)
    \/ SocketOpen
    \/ SocketError
    \/ \E text \in DescriptionTexts : SetChallengeDescription(text)
    \/ handleSendChallenge
    \/ \E text \in AmountTexts : SetChallengeBetAmount(text)
    \/ handleAcceptChallenge
    \/ handleDenyChallenge
    \/ \E text \in BetTexts : SetBetAmount(text)
    \/ handlePlaceBet
    \/ handleResetGame

Spec == Init /\ [][Next]_vars

(***************************************************************************)
(* The connection alone: a transport that drops and reconnects, the join   *)
(* and the inbound events, also those that arrive after the channel was    *)
(* left, without user input.                                               *)
(***************************************************************************)
NextConnection ==
    \/ useEffect
    \/ Cleanup
    \/ \E resp \in JoinResponses : JoinOk(resp)
    \/ JoinError
    \/ JoinTimeout
    \/ Rejoin
    \/ \E event \in InboundEvents :
          \E payload \in ConnectionPayloads(event) : Inbound(event, payload)
    \/ \E event \in InboundEvents :
          \E payload \in ConnectionPayloads(event) :
              StaleInbound(event, payload)
    \/ SocketOpen
    \/ SocketError
    \/ SocketClose
    \/ Reconnect

ConnectionSpec == InitConnection /\ [][NextConnection]_vars

(***************************************************************************)
(* Properties of the session.                                              *)
(***************************************************************************)
\* the GameState the transition table gives for an event, from GameState g
C1_Target(event, g) ==
    CASE event = "challenge_received" -> "ChallengeReceived"
      [] event = "challenge_accepted" -> "ChallengeAccepted"
      [] event = "challenge_declined" -> "ChallengeDeclined"
      [] event = "bet_completed" -> "BetCompleted"
      [] event = "user_left" -> "Idle"
      [] event = "game_reset" -> "Idle"
      [] event = "user_joined" -> g

\* a validated action of the event, with no payload field set
C1_Action(event) ==
    [event |-> event, room |-> NoRoomInfo, payload |-> EmptyPayload]

\* C1: GameState starts at Idle; every step that applies a validated inbound
\* event ends in the GameState the table gives for the event, whatever the
\* GameState before; and in every reachable state the handler maps each of
\* the seven events, game_reset included, to the table's GameState.
C1_GameStateByEvent ==
    /\ gameState = "Idle"
    /\ [][lastOp'.op = "inbound" =>
            gameState' = C1_Target(lastOp'.event, gameState)]_vars
    /\ [](\A event \in InboundEvents :
            handleIncomingMessage(Game, C1_Action(event)).gameState =
                C1_Target(event, gameState))

\* C1 witness: challenge_declined was applied after a bet_completed had
\* filled in the result, that is out of the table's order, and GameState is
\* ChallengeDeclined
C1_Witness ==
    /\ lastOp = Op("inbound", "challenge_declined", TRUE)
    /\ roomInfo.present
    /\ roomInfo.betStatus = Str("completed")
    /\ gameState = "ChallengeDeclined"

\* C2: after handlePlaceBet ran with a bet amount >= RoomInfo.challengeAmount
\* nothing was pushed; after it ran with a bet amount in
\* [1, challengeAmount - 1] exactly one place_bet carrying that amount was
\* pushed; and no step pushes a place_bet outside that range.
C2_PlaceBetGate ==
    LET ca == roomInfo.challengeAmount
    IN  /\ lastOp.op = "handlePlaceBet" /\ ca.t = "num" =>
            /\ betAmount >= ca.n => pushed = <<>>
            /\ betAmount \in 1..(ca.n - 1) =>
                  pushed = <<[event |-> "place_bet",
                              payload |-> AmountOut(betAmount)]>>
        /\ \A i \in 1..Len(pushed) :
              pushed[i].event = "place_bet" =>
                  /\ ca.t = "num"
                  /\ pushed[i].payload.amount \in 1..(ca.n - 1)

\* C2 witness: handlePlaceBet ran with the bet equal to the challenge amount
\* and pushed nothing
C2_Witness ==
    /\ lastOp = Op("handlePlaceBet", "place_bet", FALSE)
    /\ roomInfo.challengeAmount.t = "num"
    /\ betAmount = roomInfo.challengeAmount.n
    /\ pushed = <<>>

\* C3, as the specification words it: once the cleanup has run, no step
\* changes RoomInfo, userId, GameState or the connected flag.
C3_TeardownSafety ==
    [][phase = "unmounted" =>
          UNCHANGED <<roomInfo, userId, gameState, isConnected>>]_vars

\* C4, as the specification words it: every delivery of an inbound
\* game_reset, the first as well as a repeated one, ends in the reset state:
\* GameState Idle, the drafts at their initial values, the bet-placed flag
\* false.
C4_ResetIdempotent ==
    [][\A payload \in InboundPayloads("game_reset") :
          Inbound("game_reset", payload) =>
              /\ gameState' = "Idle"
              /\ challengeDescription' = <<>>
              /\ challengeBetAmount' = InitialChallengeBetAmount
              /\ betAmount' = InitialBetAmount
              /\ hasPlacedBet' = FALSE]_vars

\* C5: while the component is mounted, the held isChallenger is true exactly
\* when userId equals RoomInfo.challengerId (the challengerId of an absent
\* RoomInfo reads as undefined), so it is never a value computed from an
\* earlier userId or RoomInfo.
C5_RoleDerivation ==
    phase # "unmounted" =>
        (isChallenger <=>
            userId = (IF roomInfo.present THEN roomInfo.challengerId
                      ELSE Undefined))

\* C5 witness: a user_joined snapshot made the other party the challenger and
\* the held value followed
C5_Witness ==
    /\ lastOp = Op("inbound", "user_joined", TRUE)
    /\ phase = "mounted"
    /\ userId = Str("u1")
    /\ roomInfo.present
    /\ roomInfo.challengerId = Str("u2")
    /\ ~isChallenger

\* C6: a step that drops an inbound message leaves RoomInfo, userId,
\* GameState and the drafts unchanged and leaves the subscriptions, the
\* channel and the socket as they were; a validated event delivered right
\* after a dropped one is applied as the table says.
C6_MalformedDropped ==
    /\ [][lastOp'.op = "dropped" =>
            /\ UNCHANGED <<roomInfo, userId, gameState, draftVars>>
            /\ UNCHANGED <<bindings, channel, sock, phase>>]_vars
    /\ [][lastOp.op = "dropped" /\ lastOp'.op = "inbound" =>
            gameState' = C1_Target(lastOp'.event, gameState)]_vars

\* C6 witness: a message was dropped in the middle of a round
C6_Witness ==
    /\ lastOp.op = "dropped"
    /\ gameState = "ChallengeAccepted"
    /\ roomInfo.present
    /\ Bound("bet_completed")

\* C7: a join ok with a response that validates sets RoomInfo and userId from
\* the response, stores the userId in sessionStorage, sets the connected flag
\* and leaves GameState alone; with a response that does not validate it
\* changes none of RoomInfo, userId, the stored userId and the connected flag.
C7_JoinOk ==
    [][\A resp \in JoinResponses :
          JoinOk(resp) =>
              IF RoomInfoSchema(resp.roomInfo) /\ resp.userId.t = "str"
              THEN /\ roomInfo'.present
                   /\ roomInfo'.roomId = resp.roomInfo.room_id
                   /\ roomInfo'.challengerId = resp.roomInfo.challenger_id
                   /\ roomInfo'.challengedId = resp.roomInfo.challenged_id
                   /\ userId' = resp.userId
                   /\ sessionStorage' = resp.userId
                   /\ isConnected'
                   /\ gameState' = gameState
              ELSE UNCHANGED <<roomInfo, userId, sessionStorage, isConnected,
                               gameState>>]_vars

\* C7 witness: the join completed with a valid response for u2 in a tab that
\* had u1 stored, in GameState Idle
C7_Witness ==
    /\ lastOp = Op("joinOk", "", TRUE)
    /\ socketParams = Str("u1")
    /\ userId = Str("u2")
    /\ sessionStorage = Str("u2")
    /\ isConnected
    /\ roomInfo.present
    /\ gameState = "Idle"

C9_Delay(n) ==
    CASE n = 1 -> 1000
      [] n = 2 -> 2000
      [] n = 3 -> 5000
      [] n = 4 -> 10000
      [] OTHER -> 10000

\* C9: whenever the socket is closed, the attempt scheduled is attempt
\* tries + 1 and its delay is 1000, 2000, 5000, 10000 for attempts 1 to 4 and
\* 10000 for every later one; whatever the number of attempts made, the next
\* attempt can be taken, and the socket is out of the loop (disconnected)
\* only after the cleanup.
C9_Backoff ==
    /\ sock = "closed" =>
          /\ reconnectDelay = C9_Delay(tries + 1)
          /\ ENABLED Reconnect
    /\ sock = "disconnected" => phase = "unmounted"

\* C9 witness: the socket closed again after more than four attempts
C9_Witness ==
    /\ sock = "closed"
    /\ tries > 4
    /\ reconnectDelay = 10000

\* the fields of RoomInfo' a validated payload of the event is stored in
C10_Stored(event, payload, r) ==
    CASE event = "challenge_received" ->
            r.challengeDescription = payload.challenge_description
      [] event = "challenge_accepted" ->
            r.challengeAmount = payload.amount
      [] event = "bet_completed" ->
            /\ r.betStatus = payload.status
            /\ r.challengerBetAmount = payload.challenger_amount
            /\ r.challengedBetAmount = payload.challenged_amount

C10_Events == {"challenge_received", "challenge_accepted", "bet_completed"}

C11_UserLeft ==
    lastOp = Op("inbound", "user_left", TRUE) =>
        /\ gameState = "Idle"
        /\ ~roomInfo.present
        /\ roomInfo = NoRoomInfo

\* C11 witness: user_left was applied in a joined session after a bet had
\* been placed, so a RoomInfo was held and the round was past ChallengeAccepted
C11_Witness ==
    /\ lastOp = Op("inbound", "user_left", TRUE)
    /\ isConnected
    /\ hasPlacedBet
    /\ gameState = "Idle"
    /\ ~roomInfo.present

\* a RoomInfo field that holds no value
C12_Cleared(v) == v.t \in {"undefined", "null"}

\* the transient fields of r are cleared and its identities are those of q
C12_TransientCleared(r, q) ==
    /\ C12_Cleared(r.challengeDescription)
    /\ C12_Cleared(r.challengeAmount)
    /\ C12_Cleared(r.challengerBetAmount)
    /\ C12_Cleared(r.challengedBetAmount)
    /\ C12_Cleared(r.betStatus)
    /\ r.roomId = q.roomId
    /\ r.challengerId = q.challengerId
    /\ r.challengedId = q.challengedId

\* C12, as the specification words it: every delivery of an inbound
\* game_reset to a session that holds a RoomInfo leaves the RoomInfo with its
\* transient challenge and bet fields cleared and its identities kept; and
\* in a mounted session the handler, given a game_reset, returns such a
\* RoomInfo.
C12_ResetClearsRoomInfo ==
    /\ [][\A payload \in InboundPayloads("game_reset") :
            Inbound("game_reset", payload) /\ roomInfo.present =>
                /\ roomInfo'.present
                /\ C12_TransientCleared(roomInfo', roomInfo)]_vars
    /\ [](phase = "mounted" /\ roomInfo.present =>
            C12_TransientCleared(
                handleIncomingMessage(Game, C1_Action("game_reset")).roomInfo,
                roomInfo))

\* the RoomInfo a user_joined snapshot stands for, field by field
C13_Snapshot(p) ==
    [present |-> TRUE,
     roomId |-> p.room_id,
     challengerId |-> p.challenger_id,
     challengedId |-> p.challenged_id,
     challengeAmount |-> p.challenge_amount,
     challengeDescription |-> p.challenge_description,
     challengerBetAmount |-> p.challenger_bet_amount,
     challengedBetAmount |-> p.challenged_bet_amount,
     createdAt |-> IF p.createdAt.t = "str" /\ p.createdAt.s # ""
                   THEN [t |-> "date", s |-> p.createdAt.s, n |-> 0]
                   ELSE Null,
     betStatus |-> p.betStatus]

\* C13: a step that applies a validated user_joined leaves exactly the
\* payload snapshot as RoomInfo, every field taken from the payload, and
\* changes none of GameState, userId, the drafts and the bet-placed flag.
C13_UserJoinedReplaces ==
    [][\A payload \in ConnectionPayloads("user_joined") :
          OnChannelEvent("user_joined", payload) /\ lastOp'.op = "inbound" =>
              /\ roomInfo' = C13_Snapshot(payload)
              /\ UNCHANGED <<gameState, userId, draftVars, hasPlacedBet>>]_vars

\* C13 witness: a snapshot without challenge or bet fields was applied in
\* BetCompleted and RoomInfo holds none of them
C13_Witness ==
    /\ lastOp = Op("inbound", "user_joined", TRUE)
    /\ gameState = "BetCompleted"
    /\ roomInfo.present
    /\ roomInfo.challengedId = Null
    /\ roomInfo.betStatus = Undefined
    /\ roomInfo.challengerBetAmount = Undefined
    /\ roomInfo.challengeDescription = Undefined

\* C14: after handleAcceptChallenge ran with an amount that is zero or
\* negative (a text that is no number is held as 0) nothing was pushed and a
\* notice is shown; after it ran with a positive amount exactly one
\* accept_challenge carrying that amount was pushed; and no step pushes an
\* accept_challenge whose amount is not positive.
C14_AcceptGate ==
    /\ lastOp.op = "handleAcceptChallenge" =>
          /\ challengeBetAmount <= 0 =>
                /\ pushed = <<>>
                /\ toasts = <<"toasts.enterValidBetAmount">>
          /\ challengeBetAmount > 0 =>
                pushed = <<[event |-> "accept_challenge",
                            payload |-> AmountOut(challengeBetAmount)]>>
    /\ \A i \in 1..Len(pushed) :
          pushed[i].event = "accept_challenge" =>
              pushed[i].payload.amount > 0

\* C14 witness: handleAcceptChallenge ran with a negative amount, pushed
\* nothing and showed the notice
C14_Witness ==
    /\ lastOp = Op("handleAcceptChallenge", "accept_challenge", FALSE)
    /\ challengeBetAmount < 0
    /\ pushed = <<>>
    /\ toasts = <<"toasts.enterValidBetAmount">>

\* the text is empty once the spaces at both ends are removed
C15_Blank(text) == \A i \in 1..Len(text) : text[i] = " "

\* C15: a step of handleSendChallenge taken with a description that is blank
\* pushes nothing, shows the notice, and leaves the description draft and
\* every other variable of the component and of the transport unchanged.
C15_BlankDescriptionBlocked ==
    [][lastOp'.op = "handleSendChallenge" /\ C15_Blank(challengeDescription) =>
          /\ pushed' = <<>>
          /\ toasts' = <<"toasts.enterChallengeDescription">>
          /\ UNCHANGED <<challengeDescription, componentVars, transportVars,
                         channel, bindings, pending>>]_vars

\* C15 witness: handleSendChallenge ran with a description of spaces only
C15_Witness ==
    /\ lastOp = Op("handleSendChallenge", "send_challenge", FALSE)
    /\ challengeDescription # <<>>
    /\ C15_Blank(challengeDescription)
    /\ pushed = <<>>
    /\ toasts = <<"toasts.enterChallengeDescription">>

\* the user actions that push an event other than reset_game
C16_Actions ==
    {"handleSendChallenge", "handleAcceptChallenge", "handleDenyChallenge",
     "handlePlaceBet"}

\* C16, as the specification words it: a step of a user action other than the
\* reset commits nothing: the bet-placed flag and the description draft are
\* after the step what they were before it, so that they change only once
\* the push is confirmed; and a push that ends in error or timeout leaves
\* them as they were before the action, the flag false and the draft in place.
C16_NoOptimisticCommit ==
    [][lastOp'.op \in C16_Actions =>
          /\ hasPlacedBet' = hasPlacedBet
          /\ challengeDescription' = challengeDescription]_vars

\* C17, as the specification words it: a step that ends a push with error or
\* with timeout shows the failure notice of the pushed action.
C17_FailureSurfaced ==
    [][\A event \in OutgoingEvents :
          PushError(event) \/ PushTimeout(event) =>
              toasts' = <<FailedToast(event)>>]_vars

\* payloads that do not conform to the variant of their event
C18_NonConforming ==
    {[event |-> "send_challenge", payload |-> EmptyOut],
     [event |-> "accept_challenge", payload |-> EmptyOut],
     [event |-> "place_bet", payload |-> DescriptionOut(<<"c">>)]}

C19_PresentsPersistedUserId ==
    phase = "mounted" /\ sock = "connecting" =>
        socketParams = (IF sessionStorage.t = "str" /\ sessionStorage.s # ""
                        THEN sessionStorage
                        ELSE Undefined)

\* the number of subscriptions the channel holds for an event name
C20_Subscriptions(event) ==
    Cardinality({i \in 1..Len(bindings) : bindings[i] = event})

\* C20, as the specification words it: no event name is subscribed more than
\* once, and as long as no join of the session has succeeded (the channel is
\* joining or errored and no join reply has been applied) the channel holds
\* no subscription.
C20_SubscribedPerJoin ==
    /\ \A event \in InboundEvents : C20_Subscriptions(event) <= 1
    /\ /\ phase = "mounted"
       /\ channel \in {"joining", "errored"}
       /\ userId = Undefined
       /\ ~isConnected
       => bindings = <<>>

C22_IdentityStable ==
    [][(/\ phase = "mounted"
        /\ lastOp'.op = "inbound"
        /\ roomInfo.present
        /\ roomInfo'.present)
       => /\ roomInfo'.roomId = roomInfo.roomId
          /\ Truthy(roomInfo.challengerId)
                => roomInfo'.challengerId = roomInfo.challengerId
          /\ Truthy(roomInfo.challengedId)
                => roomInfo'.challengedId = roomInfo.challengedId]_vars

\* C23: in every state of a mounted session, GameState ChallengeReceived
\* comes with a RoomInfo whose challengeDescription is neither null nor
\* undefined, ChallengeAccepted with one whose challengeAmount is, and
\* BetCompleted with one whose betStatus, challengerBetAmount and
\* challengedBetAmount are.
C23_Populated(f) == roomInfo.present /\ roomInfo[f] \notin {Undefined, Null}

C23_Consistent ==
    phase = "mounted" =>
        /\ gameState = "ChallengeReceived" =>
              C23_Populated("challengeDescription")
        /\ gameState = "ChallengeAccepted" => C23_Populated("challengeAmount")
        /\ gameState = "BetCompleted" =>
              /\ C23_Populated("betStatus")
              /\ C23_Populated("challengerBetAmount")
              /\ C23_Populated("challengedBetAmount")

\* C24: a step of handleSendChallenge, handleAcceptChallenge,
\* handleDenyChallenge or handlePlaceBet, whether it pushes or is rejected
\* locally, leaves GameState and RoomInfo as they were; a bet that passes
\* the guards in ChallengeAccepted sets the bet-placed flag, keeps the
\* drafts and leaves GameState at ChallengeAccepted.
C24_UserActions ==
    {"handleSendChallenge", "handleAcceptChallenge", "handleDenyChallenge",
     "handlePlaceBet"}

C24_UserActionsFrame ==
    [][lastOp'.op \in C24_UserActions
       => /\ gameState' = gameState
          /\ roomInfo' = roomInfo
          /\ (lastOp'.op = "handlePlaceBet" /\ lastOp'.valid)
                => /\ gameState' = "ChallengeAccepted"
                   /\ hasPlacedBet'
                   /\ UNCHANGED draftVars]_vars

\* C24 witness: a bet was pushed in ChallengeAccepted and the flag is set
C24_Witness ==
    /\ lastOp = Op("handlePlaceBet", "place_bet", TRUE)
    /\ pushed # <<>>
    /\ gameState = "ChallengeAccepted"
    /\ hasPlacedBet

\* C25: the step of handleResetGame itself ends in GameState Idle with the
\* drafts at their initial values and the bet-placed flag false, while its
\* reset_game push is still awaiting a reply; and the step in which that
\* push is answered ok, answered with an error or times out changes none of
\* GameState, the drafts and the flag.
C25_ResetState ==
    /\ gameState = "Idle"
    /\ challengeDescription = <<>>
    /\ challengeBetAmount = InitialChallengeBetAmount
    /\ betAmount = InitialBetAmount
    /\ ~hasPlacedBet

C25_LocalResetImmediate ==
    /\ [](lastOp.op = "handleResetGame"
            => C25_ResetState /\ "reset_game" \in pending)
    /\ [][(/\ "reset_game" \in pending
           /\ "reset_game" \notin pending'
           /\ lastOp'.op \in {"pushOk", "pushError", "pushTimeout"})
          => UNCHANGED <<gameState, draftVars, hasPlacedBet>>]_vars

\* C25 witness: the reset_game push was answered with an error right after
\* the local reset, and the local state is still the reset one
C25_Witness ==
    /\ lastOp = Op("pushError", "reset_game", TRUE)
    /\ toasts = <<"Failed to reset game">>
    /\ C25_ResetState
    /\ roomInfo.present /\ roomInfo.betStatus = Str("completed")

\* C26: a step of socket.onError or socket.onClose in a mounted session
\* leaves RoomInfo, userId, GameState, the drafts and the bet-placed flag as
\* they were, leaves the handlers bound and the connected flag as it was, and
\* shows a toast.
C26_TransportFrame ==
    [][(phase = "mounted" /\ lastOp'.op \in {"socketError", "socketClose"})
       => /\ UNCHANGED <<roomInfo, userId, gameState, draftVars, hasPlacedBet>>
          /\ UNCHANGED <<isConnected, bindings, refVars>>
          /\ toasts' # <<>>]_vars

\* C27: in a session driven by the connection alone, GameState starts at
\* Idle and is a function of the deliveries in their order: the step that
\* delivers a validated event other than user_joined ends in that event's
\* target state, in that very step and whatever the state before, and every
\* other step (a validated user_joined, a dropped delivery, a join reply, a
\* socket event, the teardown) leaves GameState as it was.  Hence after any
\* sequence of deliveries GameState is the target of the last validated one
\* that is not user_joined.
C27_DeliveryOrder ==
    /\ gameState = "Idle"
    /\ [][IF lastOp'.op = "inbound" /\ lastOp'.event # "user_joined"
          THEN gameState' = C1_Target(lastOp'.event, "Idle")
          ELSE gameState' = gameState]_vars

\* C27 witness: a user_joined was delivered last and replaced RoomInfo by a
\* snapshot without a description, and GameState is still that of the
\* challenge_accepted delivered before it
C27_Witness ==
    /\ lastOp = Op("inbound", "user_joined", TRUE)
    /\ gameState = "ChallengeAccepted"
    /\ roomInfo.present
    /\ roomInfo.challengeDescription \in {Undefined, Null}

\* C28: the RoomInfo, GameState, drafts and bet-placed flag after a delivery
\* are a function of those same values before it and of the delivered event
\* and payload alone: whatever the userId, the role, the connected flag, the
\* transport and the history of the session, the delivery ends in
\* C28_Outcome of them, so two copies that agree on them end in the same
\* state.
C28_Outcome(G, event, payload) ==
    IF IncomingActionSchema(event, payload)
    THEN handleIncomingMessage(G, IncomingParsed(event, payload))
    ELSE G

C29_Renamed(p) ==
    [present |-> TRUE,
     roomId |-> p.room_id,
     challengerId |-> p.challenger_id,
     challengedId |-> p.challenged_id,
     challengeAmount |-> p.challenge_amount,
     challengeDescription |-> p.challenge_description,
     challengerBetAmount |-> p.challenger_bet_amount,
     challengedBetAmount |-> p.challenged_bet_amount,
     createdAt |-> p.createdAt,
     betStatus |-> p.betStatus]

\* the payload fields each variant's schema declares
C29_DeclaredKeys(event) ==
    CASE event = "challenge_received" -> {"challenge_description"}
      [] event = "challenge_accepted" -> {"amount"}
      [] event = "challenge_declined" -> {"declined_by"}
      [] event = "bet_completed" ->
            {"status", "challenger_amount", "challenged_amount"}
      [] event = "user_left" -> {"user_id"}
      [] OTHER -> {}

C29_FieldsKept(event, p) ==
    \A f \in C29_DeclaredKeys(event) :
        IncomingParsed(event, p).payload[f] = p[f]

\* the parsed value equals the input, field for field
C29_ParsedExact(event, p) ==
    IF event = "user_joined"
    THEN IncomingParsed(event, p).room = C29_Renamed(p)
    ELSE C29_FieldsKept(event, p)

\* the parsed value equals the input but for createdAt, which is a Date
\* when the input is a non-empty string and null otherwise
C29_ParsedButDate(event, p) ==
    IF event = "user_joined"
    THEN IncomingParsed(event, p).room =
            [C29_Renamed(p) EXCEPT !.createdAt =
                IF p.createdAt.t = "str" /\ p.createdAt.s # ""
                THEN DateOf(p.createdAt.s) ELSE Null]
    ELSE C29_FieldsKept(event, p)

\* every delivery either parses to a value that meets Q and is applied as
\* that value, or is dropped with the state the handler writes untouched
C29_Delivery(Q(_, _)) ==
    \A event \in InboundEvents : \A payload \in ConnectionPayloads(event) :
        OnChannelEvent(event, payload) =>
            IF IncomingActionSchema(event, payload)
            THEN /\ Q(event, payload)
                 /\ Game' = handleIncomingMessage(Game,
                                IncomingParsed(event, payload))
                 /\ lastOp' = Op("inbound", event, TRUE)
            ELSE /\ UNCHANGED <<gameState, roomInfo, draftVars, hasPlacedBet>>
                 /\ lastOp' = Op("dropped", "", FALSE)

C30_UserIdWrittenByJoin ==
    /\ userId = Undefined
    /\ [][userId' # userId
            => /\ lastOp' = Op("joinOk", "", TRUE)
               /\ userId'.t = "str"
               /\ sessionStorage' = userId']_vars

\* C30 witness: a user_left was applied in a joined session; RoomInfo is
\* gone and the userId of the join is still there
C30_Witness ==
    /\ lastOp = Op("inbound", "user_left", TRUE)
    /\ ~roomInfo.present
    /\ userId = Str("u2")
    /\ sessionStorage = Str("u2")
    /\ isConnected

\* C31: once the session has subscribed, the event names bound on the
\* channel are the seven events, each of them is a variant the schema
\* accepts, and a game_reset delivered with no payload fields passes
\* IncomingActionSchema, so that the handler's game_reset branch can run.
C31_SameSevenEvents ==
    bindings # <<>> =>
        /\ {bindings[i] : i \in 1..Len(bindings)} = InboundEvents
        /\ \A event \in InboundEvents :
              Bound(event) => event \in IncomingVariants
        /\ IncomingActionSchema("game_reset", EmptyPayload)

\* C32: a validated challenge_received, challenge_accepted or bet_completed
\* that is delivered while no RoomInfo is held ends in the event's GameState
\* and leaves RoomInfo absent, with none of the payload's values stored; and
\* the only steps after which a RoomInfo is held where none was before are a
\* validated user_joined and a join reply 'ok' with a valid response.
C32_PatchEvents == {"challenge_received", "challenge_accepted", "bet_completed"}

C32_AbsentRoomInfoStaysAbsent ==
    /\ [](~roomInfo.present => roomInfo = NoRoomInfo)
    /\ [][(/\ ~roomInfo.present
           /\ lastOp'.op = "inbound"
           /\ lastOp'.event \in C32_PatchEvents)
          => /\ gameState' = C1_Target(lastOp'.event, gameState)
             /\ roomInfo' = NoRoomInfo]_vars
    /\ [][(~roomInfo.present /\ roomInfo'.present)
          => \/ lastOp' = Op("joinOk", "", TRUE)
             \/ lastOp' = Op("inbound", "user_joined", TRUE)]_vars

\* C32 witness: in a joined session whose RoomInfo a user_left had removed, a
\* bet_completed was delivered: GameState is BetCompleted and no RoomInfo is
\* held
C32_Witness ==
    /\ phase = "mounted"
    /\ lastOp = Op("inbound", "bet_completed", TRUE)
    /\ userId # Undefined
    /\ isConnected
    /\ gameState = "BetCompleted"
    /\ roomInfo = NoRoomInfo

\* C33: every step of a mounted session that takes GameState from another
\* value to ChallengeAccepted ends with the bet-placed flag false.
C33_FreshRound ==
    [][(/\ phase = "mounted"
        /\ gameState # "ChallengeAccepted"
        /\ gameState' = "ChallengeAccepted")
       => ~hasPlacedBet']_vars

\* C34: in every state of a mounted session in which no userId has been
\* assigned, the session is not classified as challenger and is not shown
\* the send-challenge view.
C34_NoUserNoChallenger ==
    (phase = "mounted" /\ userId = Undefined)
        => ~isChallenger /\ ~SendChallengeView

\* the render offers a button whose handler may call sendEvent
C35_PushOffered ==
    \/ SendChallengeView /\ ~SendChallengeDisabled
    \/ ChallengeReceivedView /\ isConnected
    \/ ChallengeAcceptedView /\ isConnected /\ ~hasPlacedBet
    \/ BetCompletedView /\ isChallenger /\ isConnected

\* C35: a step pushes a message only in a mounted session that has a room
\* id and whose channel reference is set; and whenever the channel reference
\* is not set (before the effect ran, for the whole session when the room id
\* is missing, after teardown) the render offers no button whose handler
\* would call sendEvent, so that no user action reaches the wire.
C35_NoPushWithoutChannel ==
    /\ pushed # <<>> =>
          channelRef /\ phase = "mounted" /\ locationRoomId # ""
    /\ ~channelRef => ~C35_PushOffered /\ pushed = <<>>
    /\ locationRoomId = "" => ~channelRef /\ pending = {}

\* C35 witness: in a session whose room id is missing the user has typed a
\* challenge; the send button is disabled and nothing was pushed
C35_Witness ==
    /\ phase = "mounted"
    /\ locationRoomId = ""
    /\ lastOp.op = "setChallengeDescription"
    /\ trim(challengeDescription) # <<>>
    /\ SendChallengeView /\ SendChallengeDisabled
    /\ ~channelRef
    /\ pushed = <<>> /\ pending = {}

C37_ConnectedUntilTeardown ==
    /\ [][(isConnected /\ ~isConnected') => lastOp'.op = "cleanup"]_vars
    /\ []((phase = "mounted" /\ userId # Undefined) => isConnected)
    /\ []((/\ phase = "mounted"
           /\ userId # Undefined
           /\ sock = "closed"
           /\ ChallengeReceivedView)
          => ENABLED handleDenyChallenge)

\* C37 witness: the socket of a joined session is closed, its channel is
\* errored, the flag is still true and the challenge-received view offers
\* its buttons
C37_Witness ==
    /\ phase = "mounted"
    /\ userId # Undefined
    /\ sock = "closed"
    /\ channel = "errored"
    /\ isConnected
    /\ ChallengeReceivedView
    /\ ENABLED handleDenyChallenge

\* the session's user is the challenger of the RoomInfo held
C38_Challenger ==
    roomInfo.present /\ userId.t = "str" /\ roomInfo.challengerId = userId

\* C38: in every state, the send button can be used only by the challenger
\* in Idle while connected and while RoomInfo names a challenged user; the
\* accept and decline buttons only by a user who is not the challenger, in
\* ChallengeReceived while connected; the bet button only in
\* ChallengeAccepted while connected and with the bet-placed flag false; the
\* reset button only by the challenger in BetCompleted while connected.
C38_OfferedInPhaseAndRole ==
    /\ ENABLED handleSendChallenge =>
          /\ C38_Challenger /\ gameState = "Idle" /\ isConnected
          /\ roomInfo.challengedId.t = "str"
    /\ (ENABLED handleAcceptChallenge \/ ENABLED handleDenyChallenge) =>
          ~C38_Challenger /\ gameState = "ChallengeReceived" /\ isConnected
    /\ ENABLED handlePlaceBet =>
          gameState = "ChallengeAccepted" /\ isConnected /\ ~hasPlacedBet
    /\ ENABLED handleResetGame =>
          C38_Challenger /\ gameState = "BetCompleted" /\ isConnected

\* an input or a button of the render can be used
C39_LocalActionOffered ==
    \/ ENABLED (\E text \in DescriptionTexts : SetChallengeDescription(text))
    \/ ENABLED handleSendChallenge
    \/ ENABLED (\E text \in AmountTexts : SetChallengeBetAmount(text))
    \/ ENABLED handleAcceptChallenge
    \/ ENABLED handleDenyChallenge
    \/ ENABLED (\E text \in BetTexts : SetBetAmount(text))
    \/ ENABLED handlePlaceBet
    \/ ENABLED handleResetGame

\* C39: whatever the GameState, a mounted session with an open socket and a
\* live channel can take a user_left, and the state after an applied
\* user_left has GameState Idle; in ChallengeDeclined the render offers no
\* input and no button; and every step that leaves ChallengeDeclined, or
\* any other GameState but for the challenger's reset out of BetCompleted,
\* applies a validated inbound event.
C39_ReturnToIdle ==
    /\ []((phase = "mounted" /\ sock = "open"
              /\ channel \in {"joining", "joined"})
          => ENABLED Inbound("user_left",
                 [EmptyPayload EXCEPT !.user_id = Str("u2")]))
    /\ [](lastOp = Op("inbound", "user_left", TRUE) => gameState = "Idle")
    /\ [](gameState = "ChallengeDeclined" => ~C39_LocalActionOffered)
    /\ [][gameState' # gameState
            => \/ lastOp'.op = "inbound"
               \/ /\ lastOp'.op = "handleResetGame"
                  /\ gameState = "BetCompleted"
                  /\ gameState' = "Idle"]_vars

\* C39 witness: a connected session sits in ChallengeDeclined with a RoomInfo
\* held; nothing is offered to the user and a user_left can be taken
C39_Witness ==
    /\ phase = "mounted"
    /\ isConnected
    /\ roomInfo.present
    /\ gameState = "ChallengeDeclined"
    /\ lastOp = Op("inbound", "challenge_declined", TRUE)
    /\ ~C39_LocalActionOffered
    /\ ENABLED Inbound("user_left", [EmptyPayload EXCEPT !.user_id = Str("u2")])

====
